---- MODULE Spec2Model ----
(***************************************************************************)
(* Model of lib/doppler/vis/plot_slugs.py: a script that reads Forge test  *)
(* output from stdin, finds the "Logs:" marker, collects the block of      *)
(* JSON-shaped lines after it, and renders one chart per parsed record.    *)
(*                                                                         *)
(* Text is modelled as sequences of tokens.  A token is a whitespace       *)
(* character " ", a brace "{" or "}", the substring "Logs:", other text    *)
(* "x", or the text of the members of a JSON object (a payload token whose *)
(* parsed value is given by Payload).                                      *)
(***************************************************************************)
EXTENDS Integers, Sequences, FiniteSets, TLC

VARIABLES lines, pc, logs_index, json_lines, i, printed, exit_status,
          parse_calls, log_args, axvline_calls, charts, files

vars == <<lines, pc, logs_index, json_lines, i, printed, exit_status,
          parse_calls, log_args, axvline_calls, charts, files>>

\* Longest input (in lines) of the text-oriented specification Spec.
MaxLines == 4
\* Longest block (in lines) after the marker in the record-oriented SpecRec.
MaxRecs == 3

\* df['liquidity'] / 1e18: the decimal exponent the division removes.
LiquidityExp == 18

\* Python's None, for logs_index; an index idx is held as <<idx>>.
None == <<>>

\* The messages the script prints.
NoLogsMsg == "No logs found in the Forge test output."
NoJsonMsg == "No JSON data found in the Forge test output."
ParseErrorMsg == "Error parsing JSON"
NoSlugMsg == "No slug data found in the JSON."
DoneMsg == "Charts have been generated and saved."

(***************************************************************************)
(* Text: marker search, the regular expression, strip.                     *)
(***************************************************************************)

\* str.isspace of one token (what \s matches and strip removes).
IsSpace(c) == c = " "

\* 'Logs:' in line
ContainsLogs(line) == \E k \in 1..Len(line) : line[k] = "Logs:"

\* The first loop: the index of the first line containing the marker, or None.
RECURSIVE FindLogs(_, _)
FindLogs(ls, idx) ==
  IF idx >= Len(ls) THEN None
  ELSE IF ContainsLogs(ls[idx + 1]) THEN <<idx>>
  ELSE FindLogs(ls, idx + 1)

RECURSIVE LStrip(_)
LStrip(s) ==
  IF s # <<>> /\ IsSpace(Head(s)) THEN LStrip(Tail(s)) ELSE s

RECURSIVE RStrip(_)
RStrip(s) ==
  IF s # <<>> /\ IsSpace(s[Len(s)]) THEN RStrip(SubSeq(s, 1, Len(s) - 1)) ELSE s

\* line.strip()
Strip(s) == RStrip(LStrip(s))

\* re.match(r'\s*\{.*\}\s*$', line): after the leading whitespace a '{', and
\* in what follows it a '}' after which only whitespace remains.
ReMatch(line) ==
  LET s == LStrip(line)
  IN  /\ s # <<>>
      /\ Head(s) = "{"
      /\ LET rest == RStrip(Tail(s))
         IN  rest # <<>> /\ rest[Len(rest)] = "}"

\* The filter a scan without the break would compute: every matching line at
\* or after position k.
RECURSIVE CollectAllMatching(_, _)
CollectAllMatching(ls, k) ==
  IF k >= Len(ls) THEN <<>>
  ELSE IF ReMatch(ls[k + 1])
       THEN <<Strip(ls[k + 1])>> \o CollectAllMatching(ls, k + 1)
       ELSE CollectAllMatching(ls, k + 1)

\* The second loop over lines[k:]: append the stripped line while it matches,
\* break at the first line that does not.
RECURSIVE CollectJson(_, _)
CollectJson(ls, k) ==
  IF k >= Len(ls) THEN <<>>
  ELSE IF ReMatch(ls[k + 1])
       THEN <<Strip(ls[k + 1])>> \o CollectJson(ls, k + 1)
       ELSE <<>>

\* logs_index is None
NoLogs(idx) == idx = None

\* A guard that never reports an empty block.
NeverEmpty(js) == FALSE

\* not json_lines
NoJson(js) == js = <<>>

(***************************************************************************)
(* JSON: the payload tokens and what json.loads makes of a stripped line.  *)
(***************************************************************************)

\* A slug entry with the four fields every chart needs.
Slug(liq) == [tickLower |-> 0, tickUpper |-> 10, liquidity |-> liq, slugName |-> "a"]
Ts(t) == [timestamp |-> t]
Ct(c) == [currentTick |-> c]

\* A parsed JSON object: its top-level keys and the value of "data".
Dict(keys, data) == [keys |-> keys, data |-> data]

PayloadTokens ==
  {"G", "G2", "N", "M1", "M2", "T", "NC", "MC", "Z", "K", "E"}

\* The object whose members a payload token stands for.
Payload(p) ==
  CASE p = "G"  -> Dict({"data"}, << Slug(2) @@ Ts(1) @@ Ct(5) >>)
    [] p = "G2" -> Dict({"data"}, << Slug(2) @@ Ts(2) @@ Ct(5),
                                     Slug(0) @@ Ts(3) @@ Ct(6) >>)
    [] p = "N"  -> Dict({"data"}, << Slug(2) @@ Ct(5) >>)
    [] p = "M1" -> Dict({"data"}, << Slug(2) @@ Ts(1) @@ Ct(5), Slug(3) >>)
    [] p = "M2" -> Dict({"data"}, << Slug(2) @@ Ct(5), Slug(3) @@ Ts(1) @@ Ct(6) >>)
    [] p = "T"  -> Dict({"data", "timestamp", "currentTick"}, << Slug(2) @@ Ct(5) >>)
    [] p = "NC" -> Dict({"data"}, << Slug(2) @@ Ts(4) >>)
    [] p = "MC" -> Dict({"data"}, << Slug(2), Slug(3) @@ Ct(6) >>)
    [] p = "Z"  -> Dict({"data"}, << Slug(0) @@ Ct(5), Slug(-1) @@ Ct(5),
                                     [tickLower |-> 0, tickUpper |-> 10,
                                      slugName |-> "b", currentTick |-> 5] >>)
    [] p = "K"  -> Dict({"data"}, << [tickLower |-> 0, tickUpper |-> 10,
                                      slugName |-> "a", timestamp |-> 1,
                                      currentTick |-> 5] >>)
    [] p = "E"  -> Dict({"data"}, <<>>)

\* The result of json.loads: a value, or JSONDecodeError.
Parsed(d) == [ok |-> TRUE, value |-> d]
JSONDecodeError == [ok |-> FALSE, value |-> Dict({}, <<>>)]

\* json.loads(json_str) of a stripped line: between the outer braces,
\* whitespace aside, nothing (the empty object) or the members of one object.
json_loads(s) ==
  IF Len(s) < 2 \/ s[1] # "{" \/ s[Len(s)] # "}" THEN JSONDecodeError
  ELSE LET inner == SelectSeq(SubSeq(s, 2, Len(s) - 1), LAMBDA c : ~IsSpace(c))
       IN  IF inner = <<>> THEN Parsed(Dict({}, <<>>))
           ELSE IF Len(inner) = 1 /\ inner[1] \in PayloadTokens
                THEN Parsed(Payload(inner[1]))
                ELSE JSONDecodeError

\* data.get('data', [])
GetData(d) == IF "data" \in d.keys THEN d.data ELSE <<>>

(***************************************************************************)
(* The table: pd.DataFrame(slugs), its columns and cells.                  *)
(***************************************************************************)

\* A cell or scalar: None, NaN, or the number val * 10^exp held as an
\* integer (int64) or as a float (float64).
NoneCell == [kind |-> "none", val |-> 0, exp |-> 0]
NaN == [kind |-> "nan", val |-> 0, exp |-> 0]
IntCell(n) == [kind |-> "int", val |-> n, exp |-> 0]
FloatCell(n) == [kind |-> "float", val |-> n, exp |-> 0]

\* df.columns of pd.DataFrame(slugs): the union of the entries' keys.
Columns(df) == UNION {DOMAIN df[r] : r \in 1..Len(df)}

\* A column of integers stays int64 when every row has the key; a row
\* without it holds NaN, and that makes the whole column float64.
Cell(df, col, r) ==
  IF col \notin DOMAIN df[r] THEN NaN
  ELSE IF \A q \in 1..Len(df) : col \in DOMAIN df[q]
       THEN IntCell(df[r][col])
       ELSE FloatCell(df[r][col])

\* df['liquidity'] / 1e18, row r: always a float; NaN stays NaN.
ScaledLiquidity(df, r) ==
  IF "liquidity" \notin DOMAIN df[r] THEN NaN
  ELSE [kind |-> "float", val |-> df[r].liquidity, exp |-> 0 - LiquidityExp]

\* x > 0 for a cell (a comparison with NaN is False).
Positive(x) == x.kind \in {"int", "float"} /\ x.val > 0

\* A lookup among the record's top-level keys.
TopLevelMeta(d, df, col) ==
  IF col \in d.keys THEN IntCell(1) ELSE NoneCell

\* df[col].iloc[0] if col in df.columns else None
Meta(d, df, col) ==
  IF col \in Columns(df) THEN Cell(df, col, 1) ELSE NoneCell

\* df['liquidity'].max(): the largest cell, NaN skipped.
MaxLiquidity(df) ==
  LET S == {ScaledLiquidity(df, r) : r \in 1..Len(df)} \ {NaN}
  IN  IF S = {} THEN NaN
      ELSE CHOOSE c \in S : \A d \in S : d.val <= c.val

\* The columns the renderer subscripts without a guard.
MandatoryColumns == {"liquidity", "tickUpper", "tickLower", "slugName"}

\* df['liquidity'], df['tickUpper'], df['tickLower'], row['slugName'] raise
\* KeyError when no entry has the key.
RaisesKeyError(df) == ~(MandatoryColumns \subseteq Columns(df))

(***************************************************************************)
(* The chart: heights, axis limit, marker line, file name.                 *)
(***************************************************************************)

\* np.log(x), x * 1.1 and the literals 0 and 1, as terms.
NpLog(x) == [fn |-> "log", of |-> x]
NpLog11(x) == [fn |-> "log*1.1", of |-> x]
Const(n) == [fn |-> "const", of |-> IntCell(n)]

\* A height computed without the guard.
HeightUnguarded(liquidity) == NpLog(liquidity)

\* height = np.log(liquidity) if liquidity > 0 else 0
Height(liquidity) ==
  IF Positive(liquidity) THEN NpLog(liquidity) ELSE Const(0)

\* np.log(max_liquidity) * 1.1 if max_liquidity > 0 else 1
YLimTop(max_liquidity) ==
  IF Positive(max_liquidity) THEN NpLog11(max_liquidity) ELSE Const(1)

Heights(df) == [r \in 1..Len(df) |-> Height(ScaledLiquidity(df, r))]

\* The arguments np.log was called with while drawing the rows.
RowLogArgs(df) ==
  {Heights(df)[r].of : r \in {q \in 1..Len(df) : Heights(df)[q].fn = "log"}}

YLimLogArgs(df) ==
  IF YLimTop(MaxLiquidity(df)).fn = "log*1.1" THEN {YLimTop(MaxLiquidity(df)).of} ELSE {}

\* f"{value}" of a scalar.
Format(x) ==
  CASE x.kind = "int"   -> ToString(x.val)
    [] x.kind = "float" -> ToString(x.val) \o ".0"
    [] x.kind = "nan"   -> "nan"
    [] x.kind = "none"  -> "None"

\* A fallback name that counts the charts already drawn, not the lines.
FileNameByChartCount(timestamp, idx) ==
  IF timestamp.kind # "none"
  THEN "slug_plot_" \o Format(timestamp) \o ".png"
  ELSE "slug_plot_" \o ToString(Len(charts)) \o ".png"

\* slug_plot_{timestamp}.png if timestamp is not None else slug_plot_{i}.png
FileName(timestamp, idx) ==
  IF timestamp.kind # "none"
  THEN "slug_plot_" \o Format(timestamp) \o ".png"
  ELSE "slug_plot_" \o ToString(idx) \o ".png"

\* ax.axvline(x) compares x with the axis bounds: None raises TypeError, a
\* number or NaN does not.
AxvlineRaises(x) == x.kind = "none"

(***************************************************************************)
(* Inputs.                                                                 *)
(***************************************************************************)

\* The object line of a payload token, as Forge prints it.
RecLine(p) == <<"{", p, "}">>

\* Lines of text: marker lines, plain text, JSON-shaped lines with and
\* without surrounding whitespace, lines that only look like JSON.
TextPool ==
  { <<"x", "Logs:">>,            \* a marker line
    <<"{", "Logs:", "}">>,       \* a marker line that is JSON-shaped too
    <<"x">>,                     \* other text
    <<"{", "G", "}", "x">>,      \* an object followed by text: no match
    <<" ", "{", "G", "}", " ">>, \* an object inside whitespace
    <<"{", "x", "}">>,           \* braces around text that is not JSON
    <<"{", "}">>,                \* the empty object
    RecLine("K"), RecLine("NC") }

\* The lines of a block: one object per payload token, the empty object, and
\* a JSON-shaped line json.loads rejects.
RecPool ==
  {RecLine(p) : p \in PayloadTokens} \cup { <<"{", "}">>, <<"{", "x", "}">> }

SeqsUpTo(S, n) == UNION {[1..k -> S] : k \in 0..n}

\* The state before the first statement runs, for the input ls.
Start(ls) ==
  /\ lines = ls
  /\ pc = "start"
  /\ logs_index = None
  /\ json_lines = <<>>
  /\ i = 0
  /\ printed = <<>>
  /\ exit_status = None
  /\ parse_calls = 0
  /\ log_args = {}
  /\ axvline_calls = <<>>
  /\ charts = <<>>
  /\ files = {}

\* Any text of at most MaxLines lines.
Init == \E ls \in SeqsUpTo(TextPool, MaxLines) : Start(ls)

\* Forge output: a marker line, then at most MaxRecs block lines; or one
\* line of a block with no marker line before it.
InitRec ==
  \/ \E block \in SeqsUpTo(RecPool, MaxRecs) : Start(<< <<"x", "Logs:">> >> \o block)
  \/ \E line \in RecPool : Start(<<line>>)

(***************************************************************************)
(* The script, statement by statement.                                     *)
(***************************************************************************)

\* Lines 16-20: the marker search.
ScanForLogs ==
  /\ pc = "start"
  /\ logs_index' = FindLogs(lines, 0)
  /\ pc' = "scanned"
  /\ UNCHANGED <<lines, json_lines, i, printed, exit_status, parse_calls,
                 log_args, axvline_calls, charts, files>>

\* Lines 22-24: no marker, sys.exit(1).
NoLogsExit ==
  /\ pc = "scanned"
  /\ NoLogs(logs_index)
  /\ printed' = Append(printed, NoLogsMsg)
  /\ exit_status' = <<1>>
  /\ pc' = "exited"
  /\ UNCHANGED <<lines, logs_index, json_lines, i, parse_calls, log_args,
                 axvline_calls, charts, files>>

\* Lines 27-34: the block after the marker.
CollectJsonLines ==
  /\ pc = "scanned"
  /\ ~NoLogs(logs_index)
  /\ json_lines' = CollectJson(lines, logs_index[1] + 1)
  /\ pc' = "collected"
  /\ UNCHANGED <<lines, logs_index, i, printed, exit_status, parse_calls,
                 log_args, axvline_calls, charts, files>>

\* Lines 36-38: empty block, sys.exit(1).
NoJsonExit ==
  /\ pc = "collected"
  /\ NoJson(json_lines)
  /\ printed' = Append(printed, NoJsonMsg)
  /\ exit_status' = <<1>>
  /\ pc' = "exited"
  /\ UNCHANGED <<lines, logs_index, json_lines, i, parse_calls, log_args,
                 axvline_calls, charts, files>>

\* Line 40: the record loop starts at i = 0.
StartLoop ==
  /\ pc = "collected"
  /\ ~NoJson(json_lines)
  /\ i' = 0
  /\ pc' = "loop"
  /\ UNCHANGED <<lines, logs_index, json_lines, printed, exit_status,
                 parse_calls, log_args, axvline_calls, charts, files>>

\* The loop body is at json_lines[i] (0-based).
InBody == pc = "loop" /\ i < Len(json_lines)
json_str == json_lines[i + 1]
data == json_loads(json_str).value
slugs == GetData(data)

\* A handler that lets the error end the run.
ParseErrorStops ==
  /\ InBody
  /\ ~json_loads(json_str).ok
  /\ parse_calls' = parse_calls + 1
  /\ printed' = Append(printed, ParseErrorMsg)
  /\ exit_status' = <<1>>
  /\ pc' = "aborted"
  /\ UNCHANGED <<lines, logs_index, json_lines, i, log_args, axvline_calls,
                 charts, files>>

\* Lines 41-45: JSONDecodeError, print and continue.
ParseError ==
  /\ InBody
  /\ ~json_loads(json_str).ok
  /\ parse_calls' = parse_calls + 1
  /\ printed' = Append(printed, ParseErrorMsg)
  /\ i' = i + 1
  /\ UNCHANGED <<lines, pc, logs_index, json_lines, exit_status, log_args,
                 axvline_calls, charts, files>>

\* A check that prints and leaves the loop.
NoSlugDataStops ==
  /\ InBody
  /\ json_loads(json_str).ok
  /\ slugs = <<>>
  /\ parse_calls' = parse_calls + 1
  /\ printed' = Append(printed, NoSlugMsg)
  /\ i' = Len(json_lines)
  /\ UNCHANGED <<lines, pc, logs_index, json_lines, exit_status, log_args,
                 axvline_calls, charts, files>>

\* A check that treats the missing slugs as fatal: print and sys.exit(1).
NoSlugDataExits ==
  /\ InBody
  /\ json_loads(json_str).ok
  /\ slugs = <<>>
  /\ parse_calls' = parse_calls + 1
  /\ printed' = Append(printed, NoSlugMsg)
  /\ exit_status' = <<1>>
  /\ pc' = "exited"
  /\ UNCHANGED <<lines, logs_index, json_lines, i, log_args, axvline_calls,
                 charts, files>>

\* Lines 47-50: no slugs, print and continue.
NoSlugData ==
  /\ InBody
  /\ json_loads(json_str).ok
  /\ slugs = <<>>
  /\ parse_calls' = parse_calls + 1
  /\ printed' = Append(printed, NoSlugMsg)
  /\ i' = i + 1
  /\ UNCHANGED <<lines, pc, logs_index, json_lines, exit_status, log_args,
                 axvline_calls, charts, files>>

\* Lines 52-72: a column the renderer needs is missing; the KeyError is not
\* caught and ends the run before anything is drawn.
TableKeyError ==
  /\ InBody
  /\ json_loads(json_str).ok
  /\ slugs # <<>>
  /\ RaisesKeyError(slugs)
  /\ parse_calls' = parse_calls + 1
  /\ exit_status' = <<1>>
  /\ pc' = "aborted"
  /\ UNCHANGED <<lines, logs_index, json_lines, i, printed, log_args,
                 axvline_calls, charts, files>>

\* Lines 52-100: the rows are drawn, then ax.axvline(current_tick) raises;
\* the TypeError is not caught and ends the run.
AxvlineTypeError ==
  /\ InBody
  /\ json_loads(json_str).ok
  /\ slugs # <<>>
  /\ ~RaisesKeyError(slugs)
  /\ AxvlineRaises(Meta(data, slugs, "currentTick"))
  /\ parse_calls' = parse_calls + 1
  /\ log_args' = log_args \cup RowLogArgs(slugs)
  /\ axvline_calls' = Append(axvline_calls,
                             [i |-> i, x |-> Meta(data, slugs, "currentTick")])
  /\ exit_status' = <<1>>
  /\ pc' = "aborted"
  /\ UNCHANGED <<lines, logs_index, json_lines, i, printed, charts, files>>

\* Lines 52-123: the chart of one record, saved.
RenderAndSave ==
  /\ InBody
  /\ json_loads(json_str).ok
  /\ slugs # <<>>
  /\ ~RaisesKeyError(slugs)
  /\ ~AxvlineRaises(Meta(data, slugs, "currentTick"))
  /\ parse_calls' = parse_calls + 1
  /\ log_args' = log_args \cup RowLogArgs(slugs) \cup YLimLogArgs(slugs)
  /\ axvline_calls' = Append(axvline_calls,
                             [i |-> i, x |-> Meta(data, slugs, "currentTick")])
  /\ charts' = Append(charts,
                      [i |-> i,
                       heights |-> Heights(slugs),
                       ylim |-> YLimTop(MaxLiquidity(slugs)),
                       timestamp |-> Meta(data, slugs, "timestamp"),
                       file |-> FileName(Meta(data, slugs, "timestamp"), i)])
  /\ files' = files \cup {FileName(Meta(data, slugs, "timestamp"), i)}
  /\ i' = i + 1
  /\ UNCHANGED <<lines, pc, logs_index, json_lines, printed, exit_status>>

\* Line 125: the loop is over; the script prints and ends with status 0.
Finish ==
  /\ pc = "loop"
  /\ i >= Len(json_lines)
  /\ printed' = Append(printed, DoneMsg)
  /\ exit_status' = <<0>>
  /\ pc' = "done"
  /\ UNCHANGED <<lines, logs_index, json_lines, i, parse_calls, log_args,
                 axvline_calls, charts, files>>

Next ==
  \/ ScanForLogs
  \/ NoLogsExit
  \/ CollectJsonLines
  \/ NoJsonExit
  \/ StartLoop
  \/ ParseError
  \/ NoSlugData
  \/ TableKeyError
  \/ AxvlineTypeError
  \/ RenderAndSave
  \/ Finish

Spec == Init /\ [][Next]_vars

SpecRec == InitRec /\ [][Next]_vars

(***************************************************************************)
(* Vocabulary of the properties, stated on the input and the outputs.      *)
(***************************************************************************)

Range(f) == {f[k] : k \in DOMAIN f}

\* How often message m was printed.
Count(m) == Cardinality({k \in 1..Len(printed) : printed[k] = m})

\* JSON-shaped: optional whitespace, '{', anything, '}', optional whitespace.
Shaped(line) ==
  \E a, b \in 1..Len(line) :
    /\ a < b
    /\ line[a] = "{"
    /\ line[b] = "}"
    /\ \A k \in 1..Len(line) : (k < a \/ k > b) => line[k] = " "

\* A shaped line without the whitespace around it.
Trimmed(line) ==
  LET a == CHOOSE k \in 1..Len(line) : line[k] # " " /\ \A q \in 1..(k - 1) : line[q] = " "
      b == CHOOSE k \in 1..Len(line) : line[k] # " " /\ \A q \in (k + 1)..Len(line) : line[q] = " "
  IN  [k \in 1..(b - a + 1) |-> line[a + k - 1]]

HasMarker == \E k \in 1..Len(lines) : ContainsLogs(lines[k])

\* The position (from 1) of the first marker line.
FirstMarker ==
  CHOOSE k \in 1..Len(lines) :
    ContainsLogs(lines[k]) /\ \A q \in 1..(k - 1) : ~ContainsLogs(lines[q])

\* The line right after the first marker is missing or not JSON-shaped.
EmptyBlock ==
  HasMarker /\ (FirstMarker = Len(lines) \/ ~Shaped(lines[FirstMarker + 1]))

\* The scan is over and found a marker.
Collected == pc \in {"collected", "loop", "done", "aborted", "exited"} /\ logs_index # None

\* The record loop has been entered.
InLoop == pc \in {"loop", "done", "aborted"}

\* What the k-th collected line (from 1) is.
LineOk(k) == json_loads(json_lines[k]).ok
LineData(k) == json_loads(json_lines[k]).value.data
LineKeys(k) == json_loads(json_lines[k]).value.keys
Malformed(k) == ~LineOk(k)
DataLess(k) == LineOk(k) /\ ("data" \notin LineKeys(k) \/ LineData(k) = <<>>)
HasRows(k) == LineOk(k) /\ "data" \in LineKeys(k) /\ LineData(k) # <<>>
RowsWith(k, col) == {r \in 1..Len(LineData(k)) : col \in DOMAIN LineData(k)[r]}

\* A record the renderer can draw: every mandatory field in some entry, and
\* a currentTick in some entry.
Renderable(k) ==
  LET rec == json_loads(json_lines[k])
      df == rec.value.data
  IN  /\ rec.ok
      /\ "data" \in rec.value.keys
      /\ df # <<>>
      /\ \A col \in MandatoryColumns \cup {"currentTick"} :
           \E r \in 1..Len(df) : col \in DOMAIN df[r]

\* The collected lines the loop has gone past.
Passed == 1..i

ChartOf(k) == {c \in 1..Len(charts) : charts[c].i = k - 1}

\* The charts are those of the renderable lines gone past, in block order.
ChartsInOrder ==
  /\ \A k \in Passed : Renderable(k) => ChartOf(k) # {}
  /\ \A c \in 1..Len(charts) : charts[c].i + 1 \in Passed
  /\ \A c, d \in 1..Len(charts) : c < d => charts[c].i < charts[d].i

(***************************************************************************)
(* C1: for every input with a line containing "Logs:", the collected block *)
(* is exactly the maximal run of consecutive JSON-shaped lines starting    *)
(* right after the FIRST marker line, in input order (each stripped): the  *)
(* run ends at the first line that is not JSON-shaped, and no later line   *)
(* nor any line at or before the marker is collected.                      *)
(***************************************************************************)
C1_MaximalRun ==
  /\ (pc # "start" /\ logs_index = None) => ~HasMarker
  /\ Collected =>
       LET m == logs_index[1] + 1
           N == Len(json_lines)
       IN  /\ HasMarker
           /\ m = FirstMarker
           /\ m + N <= Len(lines)
           /\ \A k \in 1..N :
                Shaped(lines[m + k]) /\ json_lines[k] = Trimmed(lines[m + k])
           /\ m + N < Len(lines) => ~Shaped(lines[m + N + 1])

\* N lines collected, then a break, then a JSON-shaped line left alone.
C1_Witness ==
  /\ Collected
  /\ Len(json_lines) >= 1
  /\ \E k \in 1..Len(lines) :
       k > logs_index[1] + 2 + Len(json_lines) /\ Shaped(lines[k])
  /\ \E k \in 1..Len(json_lines) : json_lines[k] # lines[logs_index[1] + 1 + k]

(***************************************************************************)
(* C2: if no input line contains "Logs:", or the line right after the      *)
(* first marker is not JSON-shaped (empty block), the run ends with a      *)
(* non-zero exit status after printing only the respective message, and in *)
(* that run no image file is written, no record is parsed and the          *)
(* completion message is never printed.                                    *)
(***************************************************************************)
C2_FatalExits ==
  (~HasMarker \/ EmptyBlock) =>
    /\ files = {}
    /\ charts = <<>>
    /\ parse_calls = 0
    /\ DoneMsg \notin Range(printed)
    /\ pc \in {"start", "scanned", "collected", "exited"}
    /\ pc = "exited" =>
         /\ exit_status = <<1>>
         /\ printed = << IF HasMarker THEN NoJsonMsg ELSE NoLogsMsg >>
    /\ pc # "exited" => (exit_status = None /\ printed = <<>> /\ ENABLED Next)

\* The marker is there, the line after it is not JSON-shaped, and a
\* JSON-shaped line further down does not save the run.
C2_Witness ==
  /\ pc = "exited"
  /\ printed = <<NoJsonMsg>>
  /\ exit_status = <<1>>
  /\ \E k \in 1..Len(lines) : k > FirstMarker /\ Shaped(lines[k])

(***************************************************************************)
(* C3: a collected line that fails JSON parsing is skipped with one        *)
(* diagnostic and writes no file, and it does not stop the loop: the run   *)
(* never ends at a malformed line, and every collected line the renderer   *)
(* can draw gets its chart, in block order, however many malformed lines   *)
(* precede it.                                                             *)
(***************************************************************************)
C3_ParseErrorSkipped ==
  InLoop =>
    /\ Count(ParseErrorMsg) = Cardinality({k \in Passed : Malformed(k)})
    /\ \A k \in Passed : Malformed(k) => ChartOf(k) = {}
    /\ pc = "aborted" => ~Malformed(i + 1)
    /\ pc = "done" => i = Len(json_lines)
    /\ ChartsInOrder

\* Two malformed lines, then a record that was charted.
C3_Witness ==
  /\ pc = "done"
  /\ Len(json_lines) = 3
  /\ Malformed(1) /\ Malformed(2)
  /\ ChartOf(3) # {}
  /\ Count(ParseErrorMsg) = 2
  /\ Cardinality(files) = 1

(***************************************************************************)
(* C4: a collected line that parses but whose record has no `data` key or  *)
(* an empty `data` list produces the diagnostic "no slug data found" and   *)
(* no image file, and processing continues with the next collected line.   *)
(***************************************************************************)
C4_NoSlugDataSkipped ==
  InLoop =>
    /\ Count(NoSlugMsg) = Cardinality({k \in Passed : DataLess(k)})
    /\ \A k \in Passed : DataLess(k) => ChartOf(k) = {}
    /\ Cardinality(files) <= Len(charts)
    /\ pc = "aborted" => ~DataLess(i + 1)
    /\ pc = "done" => i = Len(json_lines)
    /\ \A k \in Passed : Renderable(k) => ChartOf(k) # {}

\* A record without `data`, then one with an empty list, then a chart.
C4_Witness ==
  /\ pc = "done"
  /\ Len(json_lines) = 3
  /\ LineOk(1) /\ "data" \notin LineKeys(1)
  /\ LineOk(2) /\ "data" \in LineKeys(2) /\ LineData(2) = <<>>
  /\ ChartOf(3) # {}
  /\ Count(NoSlugMsg) = 2
  /\ Cardinality(files) = 1

(***************************************************************************)
(* C5, as claimed: whenever a marker is found and at least one JSON-shaped *)
(* line is collected, the run always reaches the end of the record loop,   *)
(* prints the completion message and exits with status zero, whatever the  *)
(* collected lines hold; the only early exits are the two fatal conditions.*)
(***************************************************************************)
C5_AlwaysCompletes ==
  (Collected /\ json_lines # <<>>) =>
    /\ pc \in {"collected", "loop", "done"}
    /\ pc # "done" => ENABLED Next
    /\ pc = "done" =>
         /\ i = Len(json_lines)
         /\ exit_status = <<0>>
         /\ printed[Len(printed)] = DoneMsg

(***************************************************************************)
(* C5, amended: whenever a marker is found and at least one JSON-shaped    *)
(* line is collected, the run either reaches the end of the record loop,   *)
(* prints the completion message and exits with status zero, or is ended   *)
(* by an error raised while the table or chart of a record that parsed and *)
(* has a non-empty `data` is built (non-zero status, no completion         *)
(* message); a malformed or data-less line never ends the run; sys.exit is *)
(* reached only by the two fatal conditions.                               *)
(***************************************************************************)
C5_CompletesOrRecordRaises ==
  /\ pc = "exited" => (logs_index = None \/ json_lines = <<>>)
  /\ (Collected /\ json_lines # <<>>) =>
       /\ pc \in {"collected", "loop", "done", "aborted"}
       /\ pc \in {"collected", "loop"} => (ENABLED Next /\ exit_status = None)
       /\ pc = "done" =>
            /\ i = Len(json_lines)
            /\ exit_status = <<0>>
            /\ printed[Len(printed)] = DoneMsg
       /\ pc = "aborted" =>
            /\ i < Len(json_lines)
            /\ HasRows(i + 1)
            /\ ~Renderable(i + 1)
            /\ exit_status = <<1>>
            /\ DoneMsg \notin Range(printed)

\* A run that skipped a malformed and a data-less line and still completed.
C5_Witness ==
  /\ pc = "done"
  /\ exit_status = <<0>>
  /\ \E k \in Passed : Malformed(k)
  /\ \E k \in Passed : DataLess(k)
  /\ charts # <<>>

(***************************************************************************)
(* Vocabulary of the naming and metadata properties.                       *)
(***************************************************************************)

\* The entries of the record chart c was drawn from.
ChartData(c) == LineData(charts[c].i + 1)

PlotName(text) == "slug_plot_" \o text \o ".png"

\* The charts are those of the renderable collected lines, one each, in
\* block order: chart c belongs to the c-th renderable line gone past.
ChartsFollowBlock ==
  /\ Len(charts) = Cardinality({k \in Passed : Renderable(k)})
  /\ \A c \in 1..Len(charts) :
       /\ charts[c].i + 1 \in Passed
       /\ Renderable(charts[c].i + 1)
       /\ Cardinality({k \in 1..(charts[c].i + 1) : Renderable(k)}) = c

(***************************************************************************)
(* C6, as claimed: the file written for a processed record is              *)
(* slug_plot_<timestamp>.png when the record contains a timestamp, and     *)
(* otherwise slug_plot_<i>.png, i being the record's zero-based position   *)
(* among ALL collected lines.  (Read generously: <timestamp> may be the    *)
(* timestamp of any slug entry of the record.)                             *)
(***************************************************************************)
C6_NamedByTimestampOrIndex ==
  /\ ChartsFollowBlock
  /\ \A c \in 1..Len(charts) :
       LET df == ChartData(c)
           has == {r \in 1..Len(df) : "timestamp" \in DOMAIN df[r]}
       IN  IF has = {}
           THEN charts[c].file = PlotName(ToString(charts[c].i))
           ELSE charts[c].file \in {PlotName(ToString(df[r].timestamp)) : r \in has}

(***************************************************************************)
(* C6, amended: the file written for a processed record is                 *)
(* slug_plot_<t>.png when at least one slug entry of its `data` has a      *)
(* `timestamp` key, t being the text of the first row of the table's       *)
(* timestamp column: the first entry's (integer) timestamp when every      *)
(* entry has one, that number written as a float ("1.0") when some other   *)
(* entry has none, and "nan" when the first entry has none.  Otherwise it  *)
(* is slug_plot_<i>.png, i being the record's zero-based position among    *)
(* ALL collected lines (skipped lines still advance i).                    *)
(***************************************************************************)
C6_NamedByTimestampColumnOrIndex ==
  /\ ChartsFollowBlock
  /\ \A c \in 1..Len(charts) :
       LET df == ChartData(c)
           has == {r \in 1..Len(df) : "timestamp" \in DOMAIN df[r]}
       IN  /\ charts[c].file \in files
           /\ charts[c].file =
                IF has = {} THEN PlotName(ToString(charts[c].i))
                ELSE IF 1 \notin has THEN PlotName("nan")
                ELSE IF has = 1..Len(df) THEN PlotName(ToString(df[1].timestamp))
                ELSE PlotName(ToString(df[1].timestamp) \o ".0")

\* A record without timestamp that is the third collected line, after two
\* skipped lines, is written as slug_plot_2.png.
C6_Witness ==
  /\ pc = "done"
  /\ Len(json_lines) = 3
  /\ Malformed(1)
  /\ DataLess(2)
  /\ Len(charts) = 1
  /\ charts[1].file = "slug_plot_2.png"
  /\ files = {"slug_plot_2.png"}

(***************************************************************************)
(* C7: after a run that completes, the image files written are one         *)
(* distinct file per successfully processed record: no two processed       *)
(* records of one run write to the same file name, so the number of output *)
(* files equals the number of processed records.                           *)
(***************************************************************************)
C7_OneFilePerRecord ==
  pc = "done" =>
    /\ Cardinality(files) = Len(charts)
    /\ \A c, d \in 1..Len(charts) : c # d => charts[c].file # charts[d].file

(***************************************************************************)
(* C8: for every processed record a natural logarithm is only ever taken   *)
(* of a strictly positive value: a row whose scaled liquidity is <= 0 gets *)
(* rectangle height 0, and when the record's maximum scaled liquidity is   *)
(* <= 0 the y-axis limits are [0, 1]; such a record is still charted and   *)
(* the run continues.                                                      *)
(***************************************************************************)
C8_LogOnlyOfPositive ==
  /\ \A a \in log_args : a.kind = "float" /\ a.val > 0 /\ a.exp = 0 - LiquidityExp
  /\ InLoop => ChartsInOrder
  /\ \A c \in 1..Len(charts) :
       LET df == ChartData(c)
           pos == {r \in 1..Len(df) : "liquidity" \in DOMAIN df[r] /\ df[r].liquidity > 0}
       IN  /\ DOMAIN charts[c].heights = 1..Len(df)
           /\ \A r \in 1..Len(df) :
                IF r \in pos
                THEN /\ charts[c].heights[r].fn = "log"
                     /\ charts[c].heights[r].of.val = df[r].liquidity
                     /\ charts[c].heights[r].of \in log_args
                ELSE charts[c].heights[r] = Const(0)
           /\ IF pos = {}
              THEN charts[c].ylim = Const(1)
              ELSE /\ charts[c].ylim.fn = "log*1.1"
                   /\ charts[c].ylim.of \in log_args
                   /\ \E r \in pos : charts[c].ylim.of.val = df[r].liquidity
                   /\ \A r \in pos : charts[c].ylim.of.val >= df[r].liquidity

\* A record whose liquidities are 0, negative and missing was charted with
\* heights 0 and limits [0, 1], and the next record was charted after it.
C8_Witness ==
  /\ pc = "done"
  /\ Len(charts) >= 2
  /\ \A r \in DOMAIN charts[1].heights : charts[1].heights[r] = Const(0)
  /\ \E r \in 1..Len(ChartData(1)) :
       "liquidity" \in DOMAIN ChartData(1)[r] /\ ChartData(1)[r].liquidity < 0
  /\ charts[1].ylim = Const(1)
  /\ charts[2].ylim.fn = "log*1.1"

(***************************************************************************)
(* C9: the vertical current-tick marker line is drawn for a record only if *)
(* `currentTick` metadata is present for that record; when no slug entry   *)
(* carries `currentTick`, no marker line is drawn and the record is still  *)
(* charted and saved normally.                                             *)
(***************************************************************************)
C9_MarkerOnlyIfCurrentTick ==
  /\ \A a \in 1..Len(axvline_calls) :
       RowsWith(axvline_calls[a].i + 1, "currentTick") # {}
  /\ pc = "aborted" =>
       ~(/\ HasRows(i + 1)
         /\ \A col \in MandatoryColumns : RowsWith(i + 1, col) # {}
         /\ RowsWith(i + 1, "currentTick") = {})

(***************************************************************************)
(* C10, as claimed: the record-level metadata `timestamp` and              *)
(* `currentTick` are determined only by the first slug entry of `data`:    *)
(* the metadata is present exactly when the first entry has that key and   *)
(* then equals the first entry's value; keys of the record's top level and *)
(* of the second and later entries never change whether the metadata is    *)
(* treated as present, its value, or the resulting file name.              *)
(***************************************************************************)
C10_MetadataFromFirstEntry ==
  /\ \A c \in 1..Len(charts) :
       LET e == ChartData(c)[1]
       IN  /\ charts[c].timestamp.kind # "none" <=> "timestamp" \in DOMAIN e
           /\ "timestamp" \in DOMAIN e =>
                /\ charts[c].timestamp.kind \in {"int", "float"}
                /\ charts[c].timestamp.val = e.timestamp
                /\ charts[c].file = PlotName(ToString(e.timestamp))
           /\ "timestamp" \notin DOMAIN e =>
                charts[c].file = PlotName(ToString(charts[c].i))
  /\ \A a \in 1..Len(axvline_calls) :
       LET e == LineData(axvline_calls[a].i + 1)[1]
       IN  /\ axvline_calls[a].x.kind # "none" <=> "currentTick" \in DOMAIN e
           /\ "currentTick" \in DOMAIN e =>
                /\ axvline_calls[a].x.kind \in {"int", "float"}
                /\ axvline_calls[a].x.val = e.currentTick

\* What the code makes of column col of the table df: None when no entry
\* has the key, else row 0's cell.
ColumnMeta(df, col) ==
  LET has == {r \in 1..Len(df) : col \in DOMAIN df[r]}
  IN  IF has = {} THEN NoneCell
      ELSE IF 1 \notin has THEN NaN
      ELSE [kind |-> IF has = 1..Len(df) THEN "int" ELSE "float",
            val |-> df[1][col], exp |-> 0]

(***************************************************************************)
(* C10, amended: the metadata `timestamp` and `currentTick` are determined *)
(* only by the slug entries of `data`: the metadata is treated as present  *)
(* exactly when at least one entry has that key (the table has the         *)
(* column), and its value is the first row's cell: the first entry's value *)
(* (as an integer when every entry has the key, as a float otherwise), or  *)
(* NaN when the first entry lacks the key.  Keys of the record's top level *)
(* never change the metadata or the file name.                             *)
(***************************************************************************)
C10_MetadataFromColumn ==
  /\ \A c \in 1..Len(charts) :
       /\ charts[c].timestamp = ColumnMeta(ChartData(c), "timestamp")
       /\ charts[c].timestamp.kind = "none" =>
            charts[c].file = PlotName(ToString(charts[c].i))
       /\ \E a \in 1..Len(axvline_calls) :
            /\ axvline_calls[a].i = charts[c].i
            /\ axvline_calls[a].x.kind # "none"
  /\ \A a \in 1..Len(axvline_calls) :
       axvline_calls[a].x = ColumnMeta(LineData(axvline_calls[a].i + 1), "currentTick")

\* A record with top-level timestamp and currentTick only gets no
\* timestamp; one whose second entry alone has a timestamp gets NaN; one
\* whose second entry alone has a currentTick gets a marker at NaN.
C10_Witness ==
  /\ \E c \in 1..Len(charts) :
       /\ "timestamp" \in LineKeys(charts[c].i + 1)
       /\ charts[c].timestamp = NoneCell
  /\ \E c \in 1..Len(charts) :
       /\ "timestamp" \notin DOMAIN ChartData(c)[1]
       /\ charts[c].timestamp = NaN
  /\ \E a \in 1..Len(axvline_calls) : axvline_calls[a].x = NaN
====
